---- MODULE Spec2Model ----
(***************************************************************************)
(* A model of astgettext.py: the keyword-specification parser, the         *)
(* syntax-tree walker, the message deduplicator, the template renderer     *)
(* and the run over the input files.                                       *)
(*                                                                         *)
(* A Python str is a sequence of one-character strings; None is the        *)
(* one-element sequence <<"None">>, which no str of the model equals.      *)
(***************************************************************************)
EXTENDS Integers, Sequences, FiniteSets, TLC

VARIABLES
    pc,             \* the position of the run
    user_keywords,  \* the -k specification strings handed to parse_keywords
    opts,           \* the options: marking_keywords, width, add_comments,
                    \* no_location, output
    files,          \* the input files: path, parsable, tree, source_lines
    file_idx,       \* the index of the file extract_all_files is at
    messages,       \* the Messages extracted so far
    dedup_idx,      \* the index of the message dedup_messages is at
    combined,       \* dedup_messages' OrderedDict: a sequence of [key, msgs]
    value,          \* the input of the formatter under check
    result,         \* the text a formatter returned
    output          \* the output destination: the chunks written to it

vars == <<pc, user_keywords, opts, files, file_idx, messages,
          dedup_idx, combined, value, result, output>>

(***************************************************************************)
(* Bounds of the model.                                                    *)
(***************************************************************************)
MaxUserSpecs == 2   \* -k strings of a run
MaxSpecArgs == 2    \* positions listed in one generated specification
MaxPos == 3         \* the largest 1-based position of a generated specification
MaxArgs == 2        \* positional arguments of a generated call
MaxFiles == 3       \* input files of a run
MaxMsgs == 4        \* messages handed to dedup_messages
MaxLen == 4         \* characters of a value handed to format_string
MaxOcc == 3         \* occurrences of a group handed to format_file_occurrences

None == <<"None">>

(***************************************************************************)
(* str helpers.                                                            *)
(***************************************************************************)
Range(s) == {s[i] : i \in DOMAIN s}

RECURSIVE Concat(_)
\* "".join(parts)
Concat(parts) ==
    IF parts = <<>> THEN <<>> ELSE Head(parts) \o Concat(Tail(parts))

RECURSIVE Join(_, _)
\* sep.join(parts)
Join(sep, parts) ==
    IF parts = <<>> THEN <<>>
    ELSE IF Len(parts) = 1 THEN parts[1]
    ELSE parts[1] \o sep \o Join(sep, Tail(parts))

RECURSIVE SplitFrom(_, _, _)
SplitFrom(s, sep, cur) ==
    IF s = <<>> THEN <<cur>>
    ELSE IF Head(s) = sep THEN <<cur>> \o SplitFrom(Tail(s), sep, <<>>)
    ELSE SplitFrom(Tail(s), sep, Append(cur, Head(s)))

\* s.split(sep) for a one-character sep: never empty, "" gives [""]
Split(s, sep) == SplitFrom(s, sep, <<>>)

Digits == <<"0", "1", "2", "3", "4", "5", "6", "7", "8", "9">>

DigitValue(c) == CHOOSE d \in 0..9 : Digits[d + 1] = c

RECURSIVE DigitsValue(_, _)
DigitsValue(s, acc) ==
    IF s = <<>> THEN acc ELSE DigitsValue(Tail(s), 10 * acc + DigitValue(Head(s)))

\* int(s) on the characters of the model: a non-empty run of digits, or ValueError
IsInt(s) == s # <<>> /\ \A i \in DOMAIN s : s[i] \in Range(Digits)

ParseInt(s) == DigitsValue(s, 0)

RECURSIVE IntToStr(_)
\* str(n) for n >= 0
IntToStr(n) ==
    IF n < 10 THEN <<Digits[n + 1]>>
    ELSE IntToStr(n \div 10) \o <<Digits[(n % 10) + 1]>>

(***************************************************************************)
(* dicts: a function on a finite set of keys.                              *)
(***************************************************************************)
EmptyDict == [k \in {} |-> 0]

Put(d, k, v) == [x \in DOMAIN d \cup {k} |-> IF x = k THEN v ELSE d[x]]

\* a | b: the right operand wins on a key of both
DictUnion(a, b) ==
    [x \in DOMAIN a \cup DOMAIN b |-> IF x \in DOMAIN b THEN b[x] ELSE a[x]]

(***************************************************************************)
(* parse_keywords                                                          *)
(***************************************************************************)
\* one argument of an argspec: the loop body of lines 101-113
ArgOk(arg) ==
    /\ arg # <<>>                                  \* arg[-1] of "" raises
    /\ IF arg[Len(arg)] = "c" THEN IsInt(SubSeq(arg, 1, Len(arg) - 1))
       ELSE IsInt(arg)

ParseArg(spec, arg) ==
    LET is_ctx == arg[Len(arg)] = "c"
        num == IF is_ctx THEN SubSeq(arg, 1, Len(arg) - 1) ELSE arg
        idx == ParseInt(num) - 1
    IN  IF is_ctx THEN Put(spec, "msgctx", idx)
        ELSE IF "msgid" \notin DOMAIN spec THEN Put(spec, "msgid", idx)
        ELSE Put(spec, "msgid_plural", idx)

RECURSIVE ParseArgs(_, _)
ParseArgs(spec, arguments) ==
    IF arguments = <<>> THEN spec
    ELSE ParseArgs(ParseArg(spec, Head(arguments)), Tail(arguments))

\* the argspec strings of one specification string ([] when it has no colon)
SpecArguments(string) ==
    LET parts == Split(string, ":")
    IN  IF Len(parts) = 1 THEN <<>> ELSE Split(parts[2], ",")

SpecFuncname(string) == Split(string, ":")[1]

\* whether parse_keywords raises on this string
SpecStringOk(string) ==
    \A i \in DOMAIN SpecArguments(string) : ArgOk(SpecArguments(string)[i])

\* the role map of one specification string
ParseSpec(string) ==
    IF Len(Split(string, ":")) = 1 THEN Put(EmptyDict, "msgid", 0)
    ELSE ParseArgs(EmptyDict, SpecArguments(string))

RECURSIVE ParseKeywordsFrom(_, _)
ParseKeywordsFrom(keywords, strings) ==
    IF strings = <<>> THEN keywords
    ELSE ParseKeywordsFrom(
             Put(keywords, SpecFuncname(Head(strings)), ParseSpec(Head(strings))),
             Tail(strings))

parse_keywords(strings) == ParseKeywordsFrom(EmptyDict, strings)

ParseKeywordsOk(strings) == \A i \in DOMAIN strings : SpecStringOk(strings[i])

\* the module-level default keyword set
marking_keywords ==
    parse_keywords(<<
       <<"_">>,
       <<"g", "e", "t", "t", "e", "x", "t">>,
       <<"d", "g", "e", "t", "t", "e", "x", "t", ":", "2">>,
       <<"n", "g", "e", "t", "t", "e", "x", "t", ":", "1", ",", "2">>,
       <<"d", "n", "g", "e", "t", "t", "e", "x", "t", ":", "2", ",", "3">>,
       <<"p", "g", "e", "t", "t", "e", "x", "t", ":", "1", "c", ",", "2">>,
       <<"d", "p", "g", "e", "t", "t", "e", "x", "t", ":", "2", "c", ",", "3">>,
       <<"n", "p", "g", "e", "t", "t", "e", "x", "t", ":", "1", "c", ",", "2", ",", "3">>,
       <<"d", "n", "p", "g", "e", "t", "t", "e", "x", "t", ":", "2", "c", ",", "3", ",", "4">>
    >>)

\* args.marking_keywords = parse_keywords(args.marking_keywords) | marking_keywords
MergeKeywords(strings) == DictUnion(parse_keywords(strings), marking_keywords)

(***************************************************************************)
(* is_python_format: python_format.search(msg), the pattern of lines       *)
(* 19-27 matched from some position of msg.  Each step maps the set of     *)
(* positions the match can be at to the set after one optional part.       *)
(***************************************************************************)
Letters ==
    {"a", "b", "c", "d", "e", "f", "g", "h", "i", "j", "k", "l", "m", "n", "o",
     "p", "q", "r", "s", "t", "u", "v", "w", "x", "y", "z", "A", "B", "C", "D",
     "E", "F", "G", "H", "I", "J", "K", "L", "M", "N", "O", "P", "Q", "R", "S",
     "T", "U", "V", "W", "X", "Y", "Z"}

WordChars == Letters \cup Range(Digits) \cup {"_"}

ConversionFlags == {"-", "#", "0", " ", "+"}

LengthModifiers == {"h", "l", "L"}

ConversionTypes ==
    {"d", "i", "o", "u", "x", "X", "e", "E", "f", "F", "g", "G", "c", "r", "s", "%"}

\* the positions after a non-empty run of characters of cs that starts at p
AfterRun(s, p, cs) ==
    {q \in (p + 1)..(Len(s) + 1) : \A k \in p..(q - 1) : s[k] \in cs}

\* (\*|\d+): a star or a run of digits at p
AfterStarOrDigits(s, p) ==
    {q \in {p + 1} : p <= Len(s) /\ s[p] = "*"} \cup AfterRun(s, p, Range(Digits))

\* the positions after one character of cs at a position of ps
AfterOne(s, ps, cs) == {p + 1 : p \in {q \in ps : q <= Len(s) /\ s[q] \in cs}}

is_python_format(s) ==
    LET start == {i + 1 : i \in {k \in DOMAIN s : s[k] = "%"}}
        key == start \cup
               {q + 1 : q \in {r \in UNION {AfterRun(s, p + 1, WordChars) :
                                            p \in {x \in start : x <= Len(s) /\ s[x] = "("}} :
                               r <= Len(s) /\ s[r] = ")"}}
        flags == key \cup AfterOne(s, key, ConversionFlags)
        width == flags \cup UNION {AfterStarOrDigits(s, p) : p \in flags}
        precision == width \cup
                     UNION {AfterStarOrDigits(s, p) : p \in AfterOne(s, width, {"."})}
        length == precision \cup AfterOne(s, precision, LengthModifiers)
    IN  AfterOne(s, length, ConversionTypes) # {}

(***************************************************************************)
(* Syntax trees (the ast module's nodes): records with a type field.       *)
(***************************************************************************)
Module(body) == [type |-> "Module", body |-> body]

Expr(v) == [type |-> "Expr", value |-> v]

Call(func, args, lineno) ==
    [type |-> "Call", func |-> func, args |-> args, keywords |-> <<>>,
     lineno |-> lineno]

Name(id) == [type |-> "Name", id |-> id]

Attribute(v, attr) == [type |-> "Attribute", value |-> v, attr |-> attr]

\* a str constant
Str(v) == [type |-> "Constant", is_str |-> TRUE, value |-> v]

\* a constant that is no str: an int, kept as its digits
Num(n) == [type |-> "Constant", is_str |-> FALSE, value |-> IntToStr(n)]

\* ast.iter_child_nodes: the child nodes, in field order
Children(node) ==
    CASE node.type = "Module" -> node.body
      [] node.type = "Expr" -> <<node.value>>
      [] node.type = "Call" -> <<node.func>> \o node.args \o node.keywords
      [] node.type = "Attribute" -> <<node.value>>
      [] OTHER -> <<>>

_is_string_const(node) == node.type = "Constant" /\ node.is_str

\* whether extract_arguments returns (it raises GettextFormatError otherwise)
ExtractArgumentsOk(node, keyword_spec) ==
    \A key \in DOMAIN keyword_spec :
        /\ keyword_spec[key] < Len(node.args)
        /\ _is_string_const(node.args[keyword_spec[key] + 1])

extract_arguments(node, keyword_spec) ==
    [key \in DOMAIN keyword_spec |-> node.args[keyword_spec[key] + 1].value]

\* arguments.get(key), and arguments.get(key, default)
Get(d, key, default) == IF key \in DOMAIN d THEN d[key] ELSE default

\* _get_funcname: the name is looked up in the module-level marking_keywords;
\* the options are not read
_get_funcname(node) ==
    IF node.func.type = "Name" /\ node.func.id \in DOMAIN marking_keywords
        THEN node.func.id
    ELSE IF node.func.type = "Attribute" /\ node.func.attr \in DOMAIN marking_keywords
        THEN node.func.attr
    ELSE None

RECURSIVE CommentsAbove(_, _)
\* the comment lines that end at line i (1-based), top to bottom
CommentsAbove(source_lines, i) ==
    IF i < 1 THEN <<>>
    ELSE IF source_lines[i] # <<>> /\ source_lines[i][1] = "#"
        THEN Append(CommentsAbove(source_lines, i - 1), Tail(source_lines[i]))
    ELSE <<>>

\* GettextVisitor._get_comments
_get_comments(source_lines, node) == CommentsAbove(source_lines, node.lineno - 1)

Message(filename, lineno, msgid, msgctx, msgid_plural, python_format, comments) ==
    [filename |-> filename, lineno |-> lineno, msgid |-> msgid, msgctx |-> msgctx,
     msgid_plural |-> msgid_plural, is_python_format |-> python_format,
     comments |-> comments]

\* the Messages visit_Call appends for this node: one or none
CallMessages(node, o, file) ==
    LET funcname == _get_funcname(node)
    IN  IF funcname # None /\ funcname \in DOMAIN o.marking_keywords
            /\ ExtractArgumentsOk(node, o.marking_keywords[funcname])
        THEN LET arguments == extract_arguments(node, o.marking_keywords[funcname])
                 comments == IF o.add_comments # None /\ o.add_comments # <<>>
                             THEN _get_comments(file.source_lines, node)
                             ELSE <<>>
                 python_format ==
                     \/ is_python_format(Get(arguments, "msgid", <<>>))
                     \/ is_python_format(Get(arguments, "msgid_plural", <<>>))
             IN  <<Message(file.path, node.lineno,
                           Get(arguments, "msgid", None),
                           Get(arguments, "msgctx", None),
                           Get(arguments, "msgid_plural", None),
                           python_format, comments)>>
        ELSE <<>>

RECURSIVE visit(_, _, _)
RECURSIVE VisitEach(_, _, _)
\* NodeVisitor.visit: visit_Call for a call (its own Message, then
\* generic_visit), generic_visit for every other node
visit(node, o, file) ==
    (IF node.type = "Call" THEN CallMessages(node, o, file) ELSE <<>>)
        \o VisitEach(Children(node), o, file)

\* generic_visit: the children, in order
VisitEach(nodes, o, file) ==
    IF nodes = <<>> THEN <<>>
    ELSE visit(Head(nodes), o, file) \o VisitEach(Tail(nodes), o, file)

\* extract_file on a file ast.parse accepts: visitor.messages
extract_file(file, o) == visit(file.tree, o, file)

(***************************************************************************)
(* dedup_messages                                                          *)
(***************************************************************************)
MessageKey(msg) == <<msg.msgctx, msg.msgid>>

\* the loop body with the group of a key seen again moved to the end
DedupStepMoveToEnd(combined_, msg) ==
    LET hits == {i \in DOMAIN combined_ : combined_[i].key = MessageKey(msg)}
    IN  IF hits = {}
        THEN Append(combined_, [key |-> MessageKey(msg), msgs |-> <<msg>>])
        ELSE LET i == CHOOSE j \in hits : TRUE
                 rest == [j \in 1..(Len(combined_) - 1) |->
                              IF j < i THEN combined_[j] ELSE combined_[j + 1]]
             IN  Append(rest, [combined_[i] EXCEPT !.msgs = Append(@, msg)])

\* the loop body of lines 146-151 on the OrderedDict, a sequence of groups in
\* insertion order
DedupStep(combined_, msg) ==
    LET hits == {i \in DOMAIN combined_ : combined_[i].key = MessageKey(msg)}
    IN  IF hits = {}
        THEN Append(combined_, [key |-> MessageKey(msg), msgs |-> <<msg>>])
        ELSE [combined_ EXCEPT ![CHOOSE j \in hits : TRUE].msgs = Append(@, msg)]

RECURSIVE DedupFrom(_, _)
DedupFrom(combined_, msgs) ==
    IF msgs = <<>> THEN combined_
    ELSE DedupFrom(DedupStep(combined_, Head(msgs)), Tail(msgs))

dedup_messages(msgs) == DedupFrom(<<>>, msgs)

(***************************************************************************)
(* The renderer.                                                           *)
(***************************************************************************)
NL == <<"\n">>

Quote == <<"\"">>

Quoted(line) == Quote \o line \o Quote

\* the escapes table
escapes(c) ==
    CASE c = "\\" -> <<"\\", "\\">>
      [] c = "\t" -> <<"\\", "t">>
      [] c = "\r" -> <<"\\", "r">>
      [] c = "\n" -> <<"\\", "n">>
      [] c = "\"" -> <<"\\", "\"">>
      [] OTHER -> <<c>>

RECURSIVE normalize(_)
normalize(string) ==
    IF string = <<>> THEN <<>> ELSE escapes(Head(string)) \o normalize(Tail(string))

\* textwrap's whitespace
Whitespace == {"\t", "\n", "\r", " "}

RECURSIVE ChunksFrom(_, _)
\* TextWrapper._split on a text without hyphens: the maximal runs of
\* whitespace and of other characters
ChunksFrom(text, cur) ==
    IF text = <<>> THEN (IF cur = <<>> THEN <<>> ELSE <<cur>>)
    ELSE IF cur = <<>> \/ ((Head(text) \in Whitespace) <=> (cur[1] \in Whitespace))
        THEN ChunksFrom(Tail(text), Append(cur, Head(text)))
    ELSE <<cur>> \o ChunksFrom(Tail(text), <<Head(text)>>)

RECURSIVE FillLine(_, _, _)
\* the inner loop of _wrap_chunks: how many chunks fit on the line
FillLine(chunks, cur_len, width) ==
    IF chunks # <<>> /\ cur_len + Len(Head(chunks)) <= width
    THEN 1 + FillLine(Tail(chunks), cur_len + Len(Head(chunks)), width)
    ELSE 0

RECURSIVE WrapChunks(_, _)
\* TextWrapper._wrap_chunks with drop_whitespace=False and break_long_words:
\* a chunk longer than the width is cut at the room left on the line
WrapChunks(chunks, width) ==
    IF chunks = <<>> THEN <<>>
    ELSE LET n == FillLine(chunks, 0, width)
             cur_line == Concat(SubSeq(chunks, 1, n))
             rest == SubSeq(chunks, n + 1, Len(chunks))
             space_left == width - Len(cur_line)
         IN  IF rest # <<>> /\ Len(rest[1]) > width
             THEN <<cur_line \o SubSeq(rest[1], 1, space_left)>>
                      \o WrapChunks(<<SubSeq(rest[1], space_left + 1, Len(rest[1]))>>
                                        \o Tail(rest), width)
             ELSE <<cur_line>> \o WrapChunks(rest, width)

RECURSIVE DropWhitespace(_)
\* the chunks with the whitespace chunks removed
DropWhitespace(chunks) ==
    IF chunks = <<>> THEN <<>>
    ELSE IF Head(chunks)[1] \in Whitespace THEN DropWhitespace(Tail(chunks))
    ELSE <<Head(chunks)>> \o DropWhitespace(Tail(chunks))

\* textwrap.wrap with whitespace dropped at the line breaks (all of it, here)
TextWrapDroppingWhitespace(line, width) ==
    WrapChunks(DropWhitespace(ChunksFrom(line, <<>>)), width)

\* textwrap.wrap(line, width=width, expand_tabs=False, replace_whitespace=False,
\* drop_whitespace=False), for width > 0 (it raises ValueError otherwise)
TextWrap(line, width) == WrapChunks(ChunksFrom(line, <<>>), width)

RECURSIVE QuotedLines(_)
\* [f'"{line}"' for line in output]
QuotedLines(lines) ==
    IF lines = <<>> THEN <<>> ELSE <<Quoted(Head(lines))>> \o QuotedLines(Tail(lines))

RECURSIVE WrapEach(_, _)
\* the loop of lines 241-246: every line but the last gets its "\n" back
WrapEach(lines, width) ==
    IF lines = <<>> THEN <<>>
    ELSE TextWrap(normalize(IF Len(lines) = 1 THEN Head(lines) ELSE Head(lines) \o NL),
                  width - 2)
             \o WrapEach(Tail(lines), width)

\* whether the single-line form fits the width
FitsOneLine(prefix, string, o) ==
    Len(prefix \o <<" ">> \o Quoted(normalize(string))) <= o.width

\* whether format_string returns: None has no split, and textwrap.wrap raises
\* on a width below 1
FormatStringOk(prefix, string, o) ==
    /\ string # None
    /\ \/ Len(Split(string, "\n")) = 1 /\ FitsOneLine(prefix, string, o)
       \/ o.width - 2 > 0

format_string(prefix, string, o) ==
    LET lines == Split(string, "\n")
    IN  IF Len(lines) = 1
        THEN IF FitsOneLine(prefix, string, o)
             THEN prefix \o <<" ">> \o Quoted(normalize(lines[1]))
             ELSE <<"m", "s", "g", "i", "d", " ", "\"", "\"", "\n">>
                      \o Join(NL, QuotedLines(TextWrap(normalize(lines[1]), o.width - 2)))
        ELSE Join(NL, QuotedLines(WrapEach(lines, o.width)))

format_msgctx(string, o) == format_string(<<"m", "s", "g", "c", "t", "x">>, string, o)

format_msgid(string, o) == format_string(<<"m", "s", "g", "i", "d">>, string, o)

format_plural(string, o) ==
    format_string(<<"m", "s", "g", "i", "d", "_", "p", "l", "u", "r", "a", "l">>,
                  string, o)

RECURSIVE CommentLines(_)
CommentLines(comments) ==
    IF comments = <<>> THEN <<>>
    ELSE <<<<"#", ".", " ">> \o Head(comments)>> \o CommentLines(Tail(comments))

format_comments(comments) == Join(NL, CommentLines(comments))

Occurrence(msg) == msg.filename \o <<":">> \o IntToStr(msg.lineno)

RECURSIVE PackOccurrences(_, _, _)
\* the loop of lines 209-214
PackOccurrences(lines, msgs, o) ==
    IF msgs = <<>> THEN lines
    ELSE LET last == lines[Len(lines)]
             joined == last \o <<" ">> \o Occurrence(Head(msgs))
         IN  IF Len(joined) <= o.width
             THEN PackOccurrences([lines EXCEPT ![Len(lines)] = joined], Tail(msgs), o)
             ELSE PackOccurrences(
                      Append(lines, <<"#", ":", " ">> \o Occurrence(Head(msgs))),
                      Tail(msgs), o)

\* the packing with every occurrence on a line of its own
FormatFileOccurrencesOnePerLine(msgs, o) ==
    Join(NL, [i \in DOMAIN msgs |-> <<"#", ":", " ">> \o Occurrence(msgs[i])])

format_file_occurrences(msgs, o) ==
    Join(NL, PackOccurrences(<<<<"#", ":", " ">> \o Occurrence(msgs[1])>>,
                             Tail(msgs), o))

format_flag(flag) == <<"#", ",", " ">> \o flag

RECURSIVE GroupComments(_)
\* the loop of lines 272-274: the comment block of every message that has one
GroupComments(msgs) ==
    IF msgs = <<>> THEN <<>>
    ELSE (IF format_comments(Head(msgs).comments) # <<>>
          THEN <<format_comments(Head(msgs).comments)>> ELSE <<>>)
             \o GroupComments(Tail(msgs))

\* whether format_entry returns
FormatEntryOk(msgs, o) ==
    /\ msgs[1].msgctx # None =>
           FormatStringOk(<<"m", "s", "g", "c", "t", "x">>, msgs[1].msgctx, o)
    /\ FormatStringOk(<<"m", "s", "g", "i", "d">>, msgs[1].msgid, o)
    /\ msgs[1].msgid_plural # None =>
           FormatStringOk(<<"m", "s", "g", "i", "d", "_", "p", "l", "u", "r", "a", "l">>,
                          msgs[1].msgid_plural, o)

format_entry(msgs, o) ==
    LET comments == IF o.add_comments # None THEN GroupComments(msgs) ELSE <<>>
    IN  (IF comments # <<>> THEN Join(NL, comments) \o NL ELSE <<>>)
        \o (IF ~o.no_location THEN format_file_occurrences(msgs, o) \o NL ELSE <<>>)
        \o (IF msgs[1].is_python_format
            THEN format_flag(<<"p", "y", "t", "h", "o", "n", "-", "f", "o", "r", "m", "a", "t">>)
                     \o NL
            ELSE <<>>)
        \o (IF msgs[1].msgctx # None THEN format_msgctx(msgs[1].msgctx, o) \o NL
            ELSE <<>>)
        \o format_msgid(msgs[1].msgid, o) \o NL
        \o (IF msgs[1].msgid_plural = None
            THEN <<"m", "s", "g", "s", "t", "r", " ", "\"", "\"">>
            ELSE format_plural(msgs[1].msgid_plural, o)
                     \o <<"\n", "m", "s", "g", "s", "t", "r", "[", "0", "]", " ", "\"", "\"">>
                     \o <<"\n", "m", "s", "g", "s", "t", "r", "[", "1", "]", " ", "\"", "\"">>)

\* format_file_header: pot_header with the defaults of the header options and
\* the year of the run
format_file_header ==
    <<
      "#", " ", "T", "r", "a", "n", "s", "l", "a", "t", "i", "o", "n", "s",
      " ", "t", "e", "m", "p", "l", "a", "t", "e", " ", "f", "o", "r", " ",
      "P", "R", "O", "J", "E", "C", "T", ".", "\n", "#", " ", "C", "o", "p",
      "y", "r", "i", "g", "h", "t", " ", "(", "C", ")", " ", "2", "0", "2",
      "6", " ", "O", "R", "G", "A", "N", "I", "Z", "A", "T", "I", "O", "N",
      "\n", "#", " ", "T", "h", "i", "s", " ", "f", "i", "l", "e", " ", "i",
      "s", " ", "d", "i", "s", "t", "r", "i", "b", "u", "t", "e", "d", " ",
      "u", "n", "d", "e", "r", " ", "t", "h", "e", " ", "s", "a", "m", "e",
      " ", "l", "i", "c", "e", "n", "s", "e", " ", "a", "s", " ", "t", "h",
      "e", " ", "P", "R", "O", "J", "E", "C", "T", " ", "p", "r", "o", "j",
      "e", "c", "t", ".", "\n", "#", " ", "F", "I", "R", "S", "T", " ", "A",
      "U", "T", "H", "O", "R", " ", "<", "E", "M", "A", "I", "L", "@", "A",
      "D", "D", "R", "E", "S", "S", ">", ",", " ", "2", "0", "2", "6", ".",
      "\n", "#", "\n", "#", ",", " ", "f", "u", "z", "z", "y", "\n", "m", "s",
      "g", "i", "d", " ", "\"", "\"", "\n", "m", "s", "g", "s", "t", "r", " ",
      "\"", "\"", "\n", "\"", "P", "r", "o", "j", "e", "c", "t", "-", "I", "d",
      "-", "V", "e", "r", "s", "i", "o", "n", ":", " ", "P", "R", "O", "J",
      "E", "C", "T", " ", "V", "E", "R", "S", "I", "O", "N", "\\", "n", "\"",
      "\n", "\"", "R", "e", "p", "o", "r", "t", "-", "M", "s", "g", "i", "d",
      "-", "B", "u", "g", "s", "-", "T", "o", ":", " ", "E", "M", "A", "I",
      "L", "@", "A", "D", "D", "R", "E", "S", "S", "\\", "n", "\"", "\n", "\"",
      "P", "O", "T", "-", "C", "r", "e", "a", "t", "i", "o", "n", "-", "D",
      "a", "t", "e", ":", " ", "2", "0", "2", "3", "-", "0", "5", "-", "0",
      "2", " ", "1", "3", ":", "4", "8", "+", "0", "2", "0", "0", "\\", "n",
      "\"", "\n", "\"", "P", "O", "-", "R", "e", "v", "i", "s", "i", "o", "n",
      "-", "D", "a", "t", "e", ":", " ", "Y", "E", "A", "R", "-", "M", "O",
      "-", "D", "A", " ", "H", "O", ":", "M", "I", "+", "Z", "O", "N", "E",
      "\\", "n", "\"", "\n", "\"", "L", "a", "s", "t", "-", "T", "r", "a", "n",
      "s", "l", "a", "t", "o", "r", ":", " ", "F", "U", "L", "L", " ", "N",
      "A", "M", "E", " ", "<", "E", "M", "A", "I", "L", "@", "A", "D", "D",
      "R", "E", "S", "S", ">", "\\", "n", "\"", "\n", "\"", "L", "a", "n", "g",
      "u", "a", "g", "e", "-", "T", "e", "a", "m", ":", " ", "L", "A", "N",
      "G", "U", "A", "G", "E", " ", "<", "L", "L", "@", "l", "i", ".", "o",
      "r", "g", ">", "\\", "n", "\"", "\n", "\"", "M", "I", "M", "E", "-", "V",
      "e", "r", "s", "i", "o", "n", ":", " ", "1", ".", "0", "\\", "n", "\"",
      "\n", "\"", "C", "o", "n", "t", "e", "n", "t", "-", "T", "y", "p", "e",
      ":", " ", "t", "e", "x", "t", "/", "p", "l", "a", "i", "n", ";", " ",
      "c", "h", "a", "r", "s", "e", "t", "=", "u", "t", "f", "-", "8", "\\",
      "n", "\"", "\n", "\"", "C", "o", "n", "t", "e", "n", "t", "-", "T", "r",
      "a", "n", "s", "f", "e", "r", "-", "E", "n", "c", "o", "d", "i", "n",
      "g", ":", " ", "8", "b", "i", "t", "\\", "n", "\"", "\n", "\"", "G", "e",
      "n", "e", "r", "a", "t", "e", "d", "-", "B", "y", ":", " ", "p", "y",
      "g", "e", "t", "t", "e", "x", "t", " ", "1", ".", "6", "\\", "n", "\"",
      "\n"
    >>

RECURSIVE FormatEntries(_, _)
\* the loop of lines 351-353
FormatEntries(groups, o) ==
    IF groups = <<>> THEN <<>>
    ELSE format_entry(Head(groups).msgs, o) \o NL \o NL \o FormatEntries(Tail(groups), o)

\* file_contents of extract_all_files
FileContents(msgs, o) ==
    format_file_header \o NL \o FormatEntries(dedup_messages(msgs), o)

FileContentsOk(msgs, o) ==
    \A i \in DOMAIN dedup_messages(msgs) : FormatEntryOk(dedup_messages(msgs)[i].msgs, o)

(***************************************************************************)
(* The options of a run.                                                   *)
(***************************************************************************)
DefaultOpts ==
    [marking_keywords |-> marking_keywords, width |-> 80,
     add_comments |-> None, no_location |-> FALSE, output |-> None]

(***************************************************************************)
(* The specification strings a run is given: a name alone, or a name, a    *)
(* colon and up to MaxSpecArgs comma-separated arguments, each a position  *)
(* 1..MaxPos with or without the c suffix, a bare c, or nothing.           *)
(***************************************************************************)
KwNames == {<<"_">>, <<"t", "r">>}

KwArgs ==
    {<<Digits[p + 1]>> : p \in 1..MaxPos}
        \cup {<<Digits[p + 1], "c">> : p \in 1..MaxPos}
        \cup {<<"c">>, <<>>}

KwArgLists == UNION {[1..n -> KwArgs] : n \in 1..MaxSpecArgs}

KwStrings ==
    KwNames \cup {n \o <<":">> \o Join(<<",">>, a) : n \in KwNames, a \in KwArgLists}

Idle ==
    /\ user_keywords = <<>>
    /\ opts = DefaultOpts
    /\ files = <<>>
    /\ file_idx = 0
    /\ messages = <<>>
    /\ dedup_idx = 0
    /\ combined = <<>>
    /\ value = <<>>
    /\ result = <<>>
    /\ output = <<>>

(***************************************************************************)
(* SpecKeywords: the -k strings of a run are parsed and merged with the    *)
(* defaults (__main__, lines 394-395).                                     *)
(***************************************************************************)
InitKeywords == pc = "args" /\ Idle

\* one more -k string on the command line
AddKeyword ==
    /\ pc = "args"
    /\ Len(user_keywords) < MaxUserSpecs
    /\ \E s \in KwStrings : user_keywords' = Append(user_keywords, s)
    /\ UNCHANGED <<pc, opts, files, file_idx, messages, dedup_idx,
                   combined, value, result, output>>

\* parse_keywords accepts every string: the merged mapping becomes the run's
MainMerge ==
    /\ pc = "args"
    /\ ParseKeywordsOk(user_keywords)
    /\ opts' = [opts EXCEPT !.marking_keywords = MergeKeywords(user_keywords)]
    /\ pc' = "extract"
    /\ UNCHANGED <<user_keywords, files, file_idx, messages, dedup_idx,
                   combined, value, result, output>>

\* parse_keywords raises (IndexError on an empty argument, ValueError from int)
MainConfigError ==
    /\ pc = "args"
    /\ ~ParseKeywordsOk(user_keywords)
    /\ pc' = "config_error"
    /\ UNCHANGED <<user_keywords, opts, files, file_idx, messages,
                   dedup_idx, combined, value, result, output>>

NextKeywords == AddKeyword \/ MainMerge \/ MainConfigError

SpecKeywords == InitKeywords /\ [][NextKeywords]_vars

(***************************************************************************)
(* extract_all_files: the files are read, parsed and walked one by one,    *)
(* then the messages are grouped and rendered, then the result is written. *)
(***************************************************************************)
\* the file at file_idx is read, parsed and walked: its messages are added
ExtractFile ==
    /\ pc = "extract"
    /\ file_idx < Len(files)
    /\ files[file_idx + 1].parsable
    /\ messages' = messages \o extract_file(files[file_idx + 1], opts)
    /\ file_idx' = file_idx + 1
    /\ UNCHANGED <<pc, user_keywords, opts, files, dedup_idx, combined, value,
                   result, output>>

\* an unparsable file passed over in silence
ExtractFileSkipped ==
    /\ pc = "extract"
    /\ file_idx < Len(files)
    /\ ~files[file_idx + 1].parsable
    /\ file_idx' = file_idx + 1
    /\ UNCHANGED <<pc, user_keywords, opts, files, messages, dedup_idx, combined,
                   value, result, output>>

\* ast.parse raises on the file at file_idx: the exception leaves
\* extract_all_files
ExtractFileError ==
    /\ pc = "extract"
    /\ file_idx < Len(files)
    /\ ~files[file_idx + 1].parsable
    /\ pc' = "aborted"
    /\ UNCHANGED <<user_keywords, opts, files, file_idx, messages, dedup_idx,
                   combined, value, result, output>>

\* lines 347-353: the groups and the text of the template
FormatContents ==
    /\ pc = "extract"
    /\ file_idx = Len(files)
    /\ FileContentsOk(messages, opts)
    /\ combined' = dedup_messages(messages)
    /\ result' = FileContents(messages, opts)
    /\ pc' = "write"
    /\ UNCHANGED <<user_keywords, opts, files, file_idx, messages, dedup_idx,
                   value, output>>

\* a formatter raises (a msgid of None, a width that leaves textwrap no room)
FormatError ==
    /\ pc = "extract"
    /\ file_idx = Len(files)
    /\ ~FileContentsOk(messages, opts)
    /\ combined' = dedup_messages(messages)
    /\ pc' = "aborted"
    /\ UNCHANGED <<user_keywords, opts, files, file_idx, messages, dedup_idx,
                   value, result, output>>

\* lines 358-362: print(file_contents), or f.write(file_contents)
WriteOutput ==
    /\ pc = "write"
    /\ opts.output # None
    /\ output' = <<IF opts.output = <<"-">> THEN result \o NL ELSE result>>
    /\ pc' = "done"
    /\ UNCHANGED <<user_keywords, opts, files, file_idx, messages, dedup_idx,
                   combined, value, result>>

\* open(opts.output, "w") raises: the output is None (no -o), or the path
\* cannot be opened
WriteError ==
    /\ pc = "write"
    /\ opts.output # <<"-">>
    /\ pc' = "aborted"
    /\ UNCHANGED <<user_keywords, opts, files, file_idx, messages, dedup_idx,
                   combined, value, result, output>>

(***************************************************************************)
(* SpecWalk: one file, whose tree is a call with up to MaxArgs arguments,  *)
(* each a constant or such a call itself, is walked under the defaults     *)
(* alone or merged with a user keyword.                                    *)
(***************************************************************************)
WalkLeaves == {Str(<<"x">>), Str(<<"y">>), Num(1)}

WalkCallees ==
    {Name(<<"_">>),
     Attribute(Name(<<"o">>), <<"p", "g", "e", "t", "t", "e", "x", "t">>),
     Name(<<"t", "r">>),
     Name(<<"p", "r", "i", "n", "t">>),
     Call(Name(<<"_">>), <<Str(<<"x">>)>>, 1)}

ArgLists(nodes) == UNION {[1..n -> nodes] : n \in 0..MaxArgs}

WalkCalls1 == {Call(f, a, 1) : f \in WalkCallees, a \in ArgLists(WalkLeaves)}

WalkCalls2 ==
    {Call(f, a, 1) : f \in WalkCallees, a \in ArgLists(WalkLeaves \cup WalkCalls1)}

WalkTrees ==
    {Module(<<Expr(c)>>) : c \in WalkCalls2}
        \cup {Module(<<Expr(c), Expr(Call(Name(<<"_">>), <<Str(<<"y">>)>>, 2))>>) :
                  c \in WalkCalls1}

WalkUserKeywords ==
    {<<>>, <<<<"t", "r">>>>, <<<<"t", "r", ":", "1", "c", ",", "2">>>>}

FilePath(i) == <<"f">> \o IntToStr(i) \o <<".", "p", "y">>

UnparsableFile(i) ==
    [path |-> FilePath(i), parsable |-> FALSE, tree |-> Module(<<>>),
     source_lines |-> <<<<"d", "e", "f", " ", "(", ":">>>>]

InitWalk ==
    /\ pc = "extract"
    /\ user_keywords \in WalkUserKeywords
    /\ opts = [DefaultOpts EXCEPT !.marking_keywords = MergeKeywords(user_keywords)]
    /\ files \in {<<[path |-> FilePath(1), parsable |-> TRUE, tree |-> t,
                     source_lines |-> <<>>]>> : t \in WalkTrees}
                    \cup {<<UnparsableFile(1)>>}
    /\ file_idx = 0
    /\ messages = <<>>
    /\ dedup_idx = 0
    /\ combined = <<>>
    /\ value = <<>>
    /\ result = <<>>
    /\ output = <<>>

NextWalk == ExtractFile \/ ExtractFileError

SpecWalk == InitWalk /\ [][NextWalk]_vars

(***************************************************************************)
(* SpecRun: a run over up to MaxFiles files, each one of a few sources:    *)
(* the same marked call with or without comment lines above it, or a       *)
(* source ast.parse rejects.                                               *)
(***************************************************************************)
CallLine == <<"_", "(", "\"", "D", "u", "p", "\"", ")">>

SharedComment == <<"#", " ", "s">>

EmptyComment == <<"#">>

UnparsableLine == <<"d", "e", "f", " ", "(", ":">>

RunSources ==
    {<<CallLine>>,
     <<SharedComment, CallLine>>,
     <<EmptyComment, CallLine>>,
     <<SharedComment, EmptyComment, CallLine, CallLine>>,
     <<UnparsableLine>>}

RECURSIVE SourceStatements(_, _)
\* ast.parse on the sources above: one expression statement per call line
SourceStatements(lines, i) ==
    IF i > Len(lines) THEN <<>>
    ELSE (IF lines[i] = CallLine
          THEN <<Expr(Call(Name(<<"_">>), <<Str(<<"D", "u", "p">>)>>, i))>>
          ELSE <<>>)
             \o SourceStatements(lines, i + 1)

SourceFile(i, lines) ==
    [path |-> FilePath(i), parsable |-> UnparsableLine \notin Range(lines),
     tree |-> Module(SourceStatements(lines, 1)), source_lines |-> lines]

InitRun ==
    /\ pc = "extract"
    /\ user_keywords = <<>>
    /\ \E w \in {80, 2}, c \in {None, <<"x">>}, out \in {None, <<"-">>, <<"o">>} :
           opts = [DefaultOpts EXCEPT !.width = w, !.add_comments = c, !.output = out]
    /\ \E n \in 0..MaxFiles :
           \E src \in [1..n -> RunSources] :
               files = [i \in 1..n |-> SourceFile(i, src[i])]
    /\ file_idx = 0
    /\ messages = <<>>
    /\ dedup_idx = 0
    /\ combined = <<>>
    /\ value = <<>>
    /\ result = <<>>
    /\ output = <<>>

NextRun ==
    \/ ExtractFile
    \/ ExtractFileError
    \/ FormatContents
    \/ FormatError
    \/ WriteOutput
    \/ WriteError

SpecRun == InitRun /\ [][NextRun]_vars

(***************************************************************************)
(* SpecDedup: dedup_messages, one iteration of its loop at a time, on up   *)
(* to MaxMsgs messages of four keys; the line number tells them apart.     *)
(***************************************************************************)
DedupMessages ==
    UNION {{[i \in 1..n |-> Message(FilePath(1), i, k[i][2], k[i][1], None, FALSE, <<>>)] :
               k \in [1..n -> {None, <<"c">>} \X {<<"x">>, <<"y">>}]} :
           n \in 0..MaxMsgs}

InitDedup ==
    /\ pc = "dedup"
    /\ user_keywords = <<>>
    /\ opts = DefaultOpts
    /\ files = <<>>
    /\ file_idx = 0
    /\ messages \in DedupMessages
    /\ dedup_idx = 0
    /\ combined = <<>>
    /\ value = <<>>
    /\ result = <<>>
    /\ output = <<>>

\* one iteration of the loop of dedup_messages
DedupNext ==
    /\ pc = "dedup"
    /\ dedup_idx < Len(messages)
    /\ combined' = DedupStep(combined, messages[dedup_idx + 1])
    /\ dedup_idx' = dedup_idx + 1
    /\ UNCHANGED <<pc, user_keywords, opts, files, file_idx, messages, value,
                   result, output>>

SpecDedup == InitDedup /\ [][DedupNext]_vars

(***************************************************************************)
(* SpecRender: format_msgctx, format_msgid or format_plural, and           *)
(* format_entry, on every value of up to MaxLen characters in one role of  *)
(* a message, at a few widths.                                             *)
(***************************************************************************)
RenderChars == {"a", " ", "\\", "\"", "\n"}

RenderStrings == UNION {[1..n -> RenderChars] : n \in 0..MaxLen}

RenderWidths == {2, 4, 6, 10, 16}

Roles == {"msgctx", "msgid", "msgid_plural"}

Prefix(role) ==
    CASE role = "msgctx" -> <<"m", "s", "g", "c", "t", "x">>
      [] role = "msgid" -> <<"m", "s", "g", "i", "d">>
      [] role = "msgid_plural" ->
             <<"m", "s", "g", "i", "d", "_", "p", "l", "u", "r", "a", "l">>

\* the formatter of a role
FormatField(role, string, o) ==
    CASE role = "msgctx" -> format_msgctx(string, o)
      [] role = "msgid" -> format_msgid(string, o)
      [] role = "msgid_plural" -> format_plural(string, o)

\* the message that holds the value in its role
RenderMessage(v) ==
    Message(FilePath(1), 1,
            IF v.role = "msgid" THEN v.string ELSE <<"i", "d">>,
            IF v.role = "msgctx" THEN v.string ELSE None,
            IF v.role = "msgid_plural" THEN v.string ELSE None,
            FALSE, <<>>)

InitRender ==
    /\ pc = "format"
    /\ user_keywords = <<>>
    /\ \E w \in RenderWidths : opts = [DefaultOpts EXCEPT !.width = w]
    /\ files = <<>>
    /\ file_idx = 0
    /\ messages = <<>>
    /\ dedup_idx = 0
    /\ combined = <<>>
    /\ \E r \in Roles, str \in RenderStrings : value = [role |-> r, string |-> str]
    /\ result = <<>>
    /\ output = <<>>

FormatString ==
    /\ pc = "format"
    /\ FormatStringOk(Prefix(value.role), value.string, opts)
    /\ result' = FormatField(value.role, value.string, opts)
    /\ pc' = "string"
    /\ UNCHANGED <<user_keywords, opts, files, file_idx, messages, dedup_idx,
                   combined, value, output>>

\* textwrap.wrap raises ValueError
FormatStringError ==
    /\ pc = "format"
    /\ ~FormatStringOk(Prefix(value.role), value.string, opts)
    /\ pc' = "aborted"
    /\ UNCHANGED <<user_keywords, opts, files, file_idx, messages, dedup_idx,
                   combined, value, result, output>>

FormatEntry ==
    /\ pc = "format"
    /\ FormatEntryOk(<<RenderMessage(value)>>, opts)
    /\ messages' = <<RenderMessage(value)>>
    /\ result' = format_entry(<<RenderMessage(value)>>, opts)
    /\ pc' = "entry"
    /\ UNCHANGED <<user_keywords, opts, files, file_idx, dedup_idx, combined,
                   value, output>>

FormatEntryError ==
    /\ pc = "format"
    /\ ~FormatEntryOk(<<RenderMessage(value)>>, opts)
    /\ messages' = <<RenderMessage(value)>>
    /\ pc' = "aborted"
    /\ UNCHANGED <<user_keywords, opts, files, file_idx, dedup_idx, combined,
                   value, result, output>>

NextRender == FormatString \/ FormatStringError \/ FormatEntry \/ FormatEntryError

SpecRender == InitRender /\ [][NextRender]_vars

(***************************************************************************)
(* SpecOccur: format_file_occurrences on a group of up to MaxOcc           *)
(* occurrences, at a few widths.                                           *)
(***************************************************************************)
OccPaths == {<<"a">>, <<"l", "i", "b", ".", "p", "y">>}

OccLines == {5, 42, 120}

OccWidths == {5, 10, 14, 80}

OccGroups ==
    UNION {{[i \in 1..n |-> Message(t[i][1], t[i][2], <<"D", "u", "p">>, None, None,
                                    FALSE, <<>>)] :
               t \in [1..n -> OccPaths \X OccLines]} :
           n \in 1..MaxOcc}

InitOccur ==
    /\ pc = "format"
    /\ user_keywords = <<>>
    /\ \E w \in OccWidths : opts = [DefaultOpts EXCEPT !.width = w]
    /\ files = <<>>
    /\ file_idx = 0
    /\ messages \in OccGroups
    /\ dedup_idx = 0
    /\ combined = <<>>
    /\ value = <<>>
    /\ result = <<>>
    /\ output = <<>>

FormatOccurrences ==
    /\ pc = "format"
    /\ result' = format_file_occurrences(messages, opts)
    /\ pc' = "occurrences"
    /\ UNCHANGED <<user_keywords, opts, files, file_idx, messages, dedup_idx,
                   combined, value, output>>

SpecOccur == InitOccur /\ [][FormatOccurrences]_vars

(***************************************************************************)
(* C3: a user specification whose name collides with a default replaces    *)
(* the default role map in the run's keyword mapping.                      *)
(***************************************************************************)
C3_UserSpecReplacesDefault ==
    pc = "extract" =>
        \A n \in DOMAIN parse_keywords(user_keywords) \cap DOMAIN marking_keywords :
            opts.marking_keywords[n] = parse_keywords(user_keywords)[n]

(***************************************************************************)
(* C10: every role map parse_keywords produces from the strings it         *)
(* accepts has an id role.                                                 *)
(***************************************************************************)
C10_EverySpecHasId ==
    pc = "extract" =>
        \A n \in DOMAIN parse_keywords(user_keywords) :
            "msgid" \in DOMAIN parse_keywords(user_keywords)[n]

(***************************************************************************)
(* C1: the file's message list is the pre-order sequence of exactly the    *)
(* calls whose callee name (plain name or final attribute) is a keyword of *)
(* the run's mapping and whose role indices are in range and hold string   *)
(* constants, one Message per such call with the literals as its fields.   *)
(***************************************************************************)
CalleeName(node) ==
    IF node.func.type = "Name" THEN node.func.id
    ELSE IF node.func.type = "Attribute" THEN node.func.attr
    ELSE None

ValidCall(node, o) ==
    /\ node.type = "Call"
    /\ CalleeName(node) \in DOMAIN o.marking_keywords
    /\ ExtractArgumentsOk(node, o.marking_keywords[CalleeName(node)])

RECURSIVE ClaimedMessages(_, _, _)
RECURSIVE ClaimedEach(_, _, _)
ClaimedMessages(node, o, file) ==
    (IF ValidCall(node, o)
     THEN LET literals == extract_arguments(node, o.marking_keywords[CalleeName(node)])
          IN  <<Message(file.path, node.lineno, Get(literals, "msgid", None),
                        Get(literals, "msgctx", None),
                        Get(literals, "msgid_plural", None),
                        \/ is_python_format(Get(literals, "msgid", <<>>))
                        \/ is_python_format(Get(literals, "msgid_plural", <<>>)),
                        <<>>)>>
     ELSE <<>>)
        \o ClaimedEach(Children(node), o, file)

ClaimedEach(nodes, o, file) ==
    IF nodes = <<>> THEN <<>>
    ELSE ClaimedMessages(Head(nodes), o, file) \o ClaimedEach(Tail(nodes), o, file)

C1_MessagesAreTheValidCalls ==
    (pc = "extract" /\ file_idx = 1) =>
        messages = ClaimedMessages(files[1].tree, opts, files[1])

(***************************************************************************)
(* Reading a rendered text back: its lines, and what a line starts with.   *)
(***************************************************************************)
TextLines(text) == Split(text, "\n")

StartsWith(line, prefix) ==
    Len(line) >= Len(prefix) /\ SubSeq(line, 1, Len(prefix)) = prefix

IsQuotedLine(line) ==
    Len(line) >= 2 /\ line[1] = "\"" /\ line[Len(line)] = "\""

Unquoted(line) == SubSeq(line, 2, Len(line) - 1)

RECURSIVE Unescape(_)
\* the escapes table read from right to left
Unescape(s) ==
    IF s = <<>> THEN <<>>
    ELSE IF s[1] = "\\" /\ Len(s) >= 2
        THEN <<CASE s[2] = "t" -> "\t"
                 [] s[2] = "r" -> "\r"
                 [] s[2] = "n" -> "\n"
                 [] OTHER -> s[2]>> \o Unescape(SubSeq(s, 3, Len(s)))
    ELSE <<s[1]>> \o Unescape(Tail(s))

(***************************************************************************)
(* C2: at every point of dedup_messages' loop the groups have distinct     *)
(* keys, each group holds exactly the messages of its key seen so far, in  *)
(* input order, every message seen is in the group of its key, and the     *)
(* groups are ordered by the position of their first occurrence (so a      *)
(* later occurrence of a key moves no group).                              *)
(***************************************************************************)
FirstIndex(msgs, key) ==
    CHOOSE i \in DOMAIN msgs :
        /\ MessageKey(msgs[i]) = key
        /\ \A j \in 1..(i - 1) : MessageKey(msgs[j]) # key

C2_StableGrouping ==
    pc = "dedup" =>
        LET seen == SubSeq(messages, 1, dedup_idx)
        IN  /\ \A i, j \in DOMAIN combined :
                   i # j => combined[i].key # combined[j].key
            /\ \A i \in DOMAIN combined :
                   /\ combined[i].msgs # <<>>
                   /\ combined[i].msgs =
                          SelectSeq(seen, LAMBDA m : MessageKey(m) = combined[i].key)
            /\ \A k \in DOMAIN seen :
                   \E i \in DOMAIN combined : combined[i].key = MessageKey(seen[k])
            /\ \A i, j \in DOMAIN combined :
                   i < j => FirstIndex(seen, combined[i].key)
                                < FirstIndex(seen, combined[j].key)

\* the first group got a second message after the second group was created
C2_Witness ==
    /\ pc = "dedup"
    /\ dedup_idx = Len(messages)
    /\ Len(combined) >= 2
    /\ Len(combined[1].msgs) >= 2
    /\ combined[1].msgs[2].lineno > combined[2].msgs[1].lineno

(***************************************************************************)
(* C4: the output destination is written only after every input file was   *)
(* read, parsed and walked; when a file cannot be parsed the run stops at  *)
(* that file: no later file has been processed, nothing has been written,  *)
(* and nothing more happens.                                               *)
(***************************************************************************)
C4_OutputOnlyAfterAllFiles ==
    /\ \A i \in 1..file_idx : files[i].parsable
    /\ \A k \in DOMAIN messages :
           \E i \in 1..file_idx : messages[k].filename = files[i].path
    /\ output # <<>> =>
           /\ pc = "done"
           /\ file_idx = Len(files)
           /\ \A i \in DOMAIN files : files[i].parsable
    /\ (\E i \in DOMAIN files : ~files[i].parsable) =>
           /\ output = <<>>
           /\ pc \in {"extract", "aborted"}
           /\ \A i \in 1..(file_idx + 1) :
                  ~files[i].parsable => i = file_idx + 1
    /\ pc = "aborted" => output = <<>> /\ ~ENABLED NextRun

\* the run stopped at an unparsable file after earlier files gave messages
C4_Witness ==
    /\ pc = "aborted"
    /\ file_idx >= 1
    /\ file_idx < Len(files)
    /\ ~files[file_idx + 1].parsable
    /\ messages # <<>>
    /\ output = <<>>

(***************************************************************************)
(* C5: every rendered entry has an id line, a line that starts with the    *)
(* key msgid and a quoted string, after the context line (if any) and      *)
(* before the msgstr and msgid_plural lines, whatever the id, an id with   *)
(* embedded newlines included.                                             *)
(***************************************************************************)
C5_EntryHasIdLine ==
    pc = "entry" =>
        LET lines == TextLines(result)
        IN  \E k \in DOMAIN lines :
                /\ StartsWith(lines[k], <<"m", "s", "g", "i", "d", " ", "\"">>)
                /\ \A j \in DOMAIN lines :
                       /\ StartsWith(lines[j], <<"m", "s", "g", "c", "t", "x">>) => j < k
                       /\ StartsWith(lines[j], <<"m", "s", "g", "s", "t", "r">>) => k < j
                       /\ StartsWith(lines[j], <<"m", "s", "g", "i", "d", "_">>) => k < j

(***************************************************************************)
(* C6: whenever format_string wraps a value, the contents of the quoted    *)
(* fragments, concatenated in order, are the escaped value; reversing the  *)
(* escapes on them gives the value back, whitespace included; and no       *)
(* fragment is longer than the width minus 2.                              *)
(***************************************************************************)
Wrapped(v, o) ==
    ~(Len(Split(v.string, "\n")) = 1 /\ FitsOneLine(Prefix(v.role), v.string, o))

KeyLine(prefix) == prefix \o <<" ", "\"", "\"">>

\* the fragment lines of a wrapped rendering: all its lines, or for a
\* single-line value the lines after the line of the key
FragmentLines(text, v) ==
    LET body == IF Len(Split(v.string, "\n")) = 1
                THEN SubSeq(text, Len(TextLines(text)[1]) + 2, Len(text))
                ELSE text
    IN  IF body = <<>> THEN <<>> ELSE TextLines(body)

C6_WrappingLosesNothing ==
    (pc = "string" /\ Wrapped(value, opts)) =>
        LET frags == FragmentLines(result, value)
            contents == [i \in DOMAIN frags |-> Unquoted(frags[i])]
        IN  /\ \A i \in DOMAIN frags : IsQuotedLine(frags[i])
            /\ Concat(contents) = normalize(value.string)
            /\ Unescape(Concat(contents)) = value.string
            /\ \A i \in DOMAIN frags : Len(contents[i]) <= opts.width - 2

\* a wrapped value with a run of spaces, leading and trailing ones included
C6_Witness ==
    /\ pc = "string"
    /\ Wrapped(value, opts)
    /\ value.string = <<" ", "a", " ", " ">>
    /\ Len(FragmentLines(result, value)) >= 2

(***************************************************************************)
(* C7, as amended: the location lines list every occurrence's path:line    *)
(* token once, in discovery order; a token starts a new #: line exactly    *)
(* when appending it to the current line would exceed the width; and no    *)
(* #: line that holds more than one token exceeds the width.               *)
(***************************************************************************)
LineTokens(line) == Split(SubSeq(line, 4, Len(line)), " ")

OccurrencesPacked(text, msgs, o) ==
    LET lines == TextLines(text)
    IN  /\ \A k \in DOMAIN lines : StartsWith(lines[k], <<"#", ":", " ">>)
        /\ Concat([k \in DOMAIN lines |-> LineTokens(lines[k])])
               = [i \in DOMAIN msgs |-> Occurrence(msgs[i])]
        /\ \A k \in 2..Len(lines) :
               Len(lines[k - 1]) + 1 + Len(LineTokens(lines[k])[1]) > o.width
        /\ \A k \in DOMAIN lines :
               \A n \in 2..Len(LineTokens(lines[k])) :
                   3 + Len(Join(<<" ">>, SubSeq(LineTokens(lines[k]), 1, n))) <= o.width

C7_PackedWithinWidthUnlessOneToken ==
    pc = "occurrences" =>
        /\ OccurrencesPacked(result, messages, opts)
        /\ \A k \in DOMAIN TextLines(result) :
               Len(LineTokens(TextLines(result)[k])) > 1 =>
                   Len(TextLines(result)[k]) <= opts.width

\* two tokens share a line and a third one, which did not fit, starts the next
C7_Witness ==
    /\ pc = "occurrences"
    /\ Len(messages) = 3
    /\ Len(TextLines(result)) = 2
    /\ Len(LineTokens(TextLines(result)[1])) = 2

(***************************************************************************)
(* C7, as claimed: ... and no emitted #: line exceeds the width.           *)
(***************************************************************************)
C7_NoLineExceedsWidth ==
    pc = "occurrences" =>
        /\ OccurrencesPacked(result, messages, opts)
        /\ \A k \in DOMAIN TextLines(result) : Len(TextLines(result)[k]) <= opts.width

(***************************************************************************)
(* C8: a single-line context, id or plural value that does not fit on one  *)
(* line is rendered as its own key and an empty quoted string, then the    *)
(* wrapped fragments as quoted lines.                                      *)
(***************************************************************************)
C8_WrappedValueKeepsItsKey ==
    (pc = "string" /\ Len(Split(value.string, "\n")) = 1 /\ Wrapped(value, opts)) =>
        /\ StartsWith(result, KeyLine(Prefix(value.role)) \o NL)
        /\ \A k \in DOMAIN FragmentLines(result, value) :
               IsQuotedLine(FragmentLines(result, value)[k])

(***************************************************************************)
(* C9: with comment output enabled, the comment block of an entry has      *)
(* exactly one #. line per distinct non-empty comment of the group's       *)
(* occurrences.                                                            *)
(***************************************************************************)
RECURSIVE BlocksFrom(_, _)
\* the runs of non-empty lines of a text
BlocksFrom(lines, cur) ==
    IF lines = <<>> THEN (IF cur = <<>> THEN <<>> ELSE <<cur>>)
    ELSE IF Head(lines) = <<>>
        THEN (IF cur = <<>> THEN <<>> ELSE <<cur>>) \o BlocksFrom(Tail(lines), <<>>)
    ELSE BlocksFrom(Tail(lines), Append(cur, Head(lines)))

\* the entries of a template: the blocks of the text after the header and
\* its empty line
Entries(text) ==
    BlocksFrom(TextLines(SubSeq(text, Len(format_file_header) + 2, Len(text))), <<>>)

GroupCommentSet(msgs) ==
    UNION {Range(msgs[i].comments) : i \in DOMAIN msgs} \ {<<>>}

C9_OneLinePerDistinctComment ==
    (pc \in {"write", "done"} /\ opts.add_comments # None) =>
        /\ Len(Entries(result)) = Len(combined)
        /\ \A k \in DOMAIN combined :
               LET cl == SelectSeq(Entries(result)[k],
                                   LAMBDA l : StartsWith(l, <<"#", ".">>))
               IN  /\ Len(cl) = Cardinality(GroupCommentSet(combined[k].msgs))
                   /\ Range(cl) = {<<"#", ".", " ">> \o c :
                                       c \in GroupCommentSet(combined[k].msgs)}

====
